---- MODULE Spec2Model ----
(***************************************************************************)
(* Model of the Trie of src/ExampleCode.ts.                                *)
(*                                                                         *)
(* A JavaScript string is a sequence of UTF-16 code units.  A code unit is *)
(* written here as a TLA+ string: "a", "A", and the two surrogates that    *)
(* together encode one astral character (U+1F600 = D83D DE00).  A Map key  *)
(* is itself a JavaScript string, hence a sequence of code units too: one  *)
(* unit for a BMP character, two for an astral one.                        *)
(*                                                                         *)
(* A TrieNode is the record [children, isEndOfWord]; children, a Map, is   *)
(* the sequence of its entries [key, node] in insertion order.             *)
(***************************************************************************)
EXTENDS Integers, Sequences, FiniteSets, TLC

VARIABLES root, words, op, arg, ret, prev, nops,
          pc, frames, cwQueue, cwCount, steps

\* The variables of a call in progress (see the step-by-step specification).
stepVars == <<pc, frames, cwQueue, cwCount, steps>>

vars == <<root, words, op, arg, ret, prev, nops,
          pc, frames, cwQueue, cwCount, steps>>

\* Bounds of the model.
MaxLen == 2
MaxOps == 4

HighSurrogate == "D83D"
LowSurrogate == "DE00"

\* The characters the inputs are made of, each as its UTF-16 code units.
Chars == {<<"a">>, <<"A">>, <<HighSurrogate, LowSurrogate>>}

RECURSIVE StringsUpTo(_)
StringsUpTo(n) ==
    IF n = 0 THEN {<<>>}
    ELSE LET S == StringsUpTo(n - 1) IN S \cup {s \o c : s \in S, c \in Chars}

\* The argument strings the operations are called with.
Inputs == StringsUpTo(MaxLen)

\* String.prototype.toLowerCase, one code unit at a time.
LowerUnit(u) == IF u = "A" THEN "a" ELSE u

ToLowerCase(s) == [i \in 1..Len(s) |-> LowerUnit(s[i])]

\* The string iterator behind for...of: one element per code point, a high
\* surrogate followed by a low surrogate being ONE element of two code units.
RECURSIVE CodePoints(_)
CodePoints(s) ==
    IF s = <<>> THEN <<>>
    ELSE IF Len(s) >= 2 /\ s[1] = HighSurrogate /\ s[2] = LowSurrogate
         THEN <<SubSeq(s, 1, 2)>> \o CodePoints(SubSeq(s, 3, Len(s)))
         ELSE <<SubSeq(s, 1, 1)>> \o CodePoints(Tail(s))

\* createNode(): a node with an empty Map and isEndOfWord false.
CreateNode == [children |-> <<>>, isEndOfWord |-> FALSE]

\* The value traverse returns when an edge is missing.
Null == [null |-> TRUE]

\* Map.prototype.get as the position of the entry with this key, 0 when there
\* is none (the code's `undefined`).
MapIndex(children, key) ==
    IF \E i \in 1..Len(children) : children[i].key = key
    THEN CHOOSE i \in 1..Len(children) : children[i].key = key
    ELSE 0

\* Map.prototype.delete: the entry leaves, the others keep their order.
MapDelete(children, i) ==
    SubSeq(children, 1, i - 1) \o SubSeq(children, i + 1, Len(children))

\* Mutant of InsertFrom: isEndOfWord is set inside the loop, on every node
\* the walk leaves, as well as on the last one.
RECURSIVE InsertFrom_MarkEveryNode(_, _)
InsertFrom_MarkEveryNode(node, cps) ==
    IF cps = <<>> THEN [node EXCEPT !.isEndOfWord = TRUE]
    ELSE LET char == Head(cps)
             i == MapIndex(node.children, char)
         IN IF i = 0
            THEN [node EXCEPT
                      !.children =
                          Append(@, [key |-> char,
                                     node |-> InsertFrom_MarkEveryNode(
                                                  CreateNode, Tail(cps))]),
                      !.isEndOfWord = TRUE]
            ELSE [node EXCEPT
                      !.children[i].node =
                          InsertFrom_MarkEveryNode(node.children[i].node,
                                                   Tail(cps)),
                      !.isEndOfWord = TRUE]

\* Mutant of InsertFrom: a present key is deleted and set again on the way,
\* which moves its entry to the end of the Map's insertion order.
RECURSIVE InsertFrom_ReinsertKey(_, _)
InsertFrom_ReinsertKey(node, cps) ==
    IF cps = <<>> THEN [node EXCEPT !.isEndOfWord = TRUE]
    ELSE LET char == Head(cps)
             i == MapIndex(node.children, char)
         IN IF i = 0
            THEN [node EXCEPT !.children =
                      Append(@, [key |-> char,
                                 node |-> InsertFrom_ReinsertKey(
                                              CreateNode, Tail(cps))])]
            ELSE [node EXCEPT !.children =
                      Append(MapDelete(@, i),
                             [key |-> char,
                              node |-> InsertFrom_ReinsertKey(
                                           node.children[i].node, Tail(cps))])]

\* The loop of insert over the remaining code points `cps`, from `node` on,
\* and the final assignment isEndOfWord = true; yields the updated node.
RECURSIVE InsertFrom(_, _)
InsertFrom(node, cps) ==
    IF cps = <<>> THEN [node EXCEPT !.isEndOfWord = TRUE]
    ELSE LET char == Head(cps)
             i == MapIndex(node.children, char)
         IN IF i = 0
            THEN [node EXCEPT !.children =
                      Append(@, [key |-> char,
                                 node |-> InsertFrom(CreateNode, Tail(cps))])]
            ELSE [node EXCEPT !.children[i].node =
                      InsertFrom(node.children[i].node, Tail(cps))]

\* Mutant of Insert: an early return on the empty word, which is then never
\* marked on the root.
Insert_SkipEmpty(r, word) ==
    IF word = <<>> THEN r
    ELSE InsertFrom(r, CodePoints(ToLowerCase(word)))

\* insert(word): the root after the call.
Insert(r, word) == InsertFrom(r, CodePoints(ToLowerCase(word)))

\* The loop of traverse over the remaining code points.
RECURSIVE TraverseFrom(_, _)
TraverseFrom(node, cps) ==
    IF cps = <<>> THEN node
    ELSE LET i == MapIndex(node.children, Head(cps))
         IN IF i = 0 THEN Null
            ELSE TraverseFrom(node.children[i].node, Tail(cps))

\* Mutant of Traverse: the string is walked as given, not lowercased.
Traverse_NoLowerCase(r, str) == TraverseFrom(r, CodePoints(str))

Traverse(r, str) == TraverseFrom(r, CodePoints(ToLowerCase(str)))

Search(r, word) ==
    LET node == Traverse(r, word)
    IN node # Null /\ node.isEndOfWord

\* Mutant of StartsWith: the test of search, isEndOfWord included.
StartsWith_NeedsWord(r, prefix) ==
    LET node == Traverse(r, prefix)
    IN node # Null /\ node.isEndOfWord

StartsWith(r, prefix) == Traverse(r, prefix) # Null

\* Mutant of CanDelete: a missing edge reports true ("prunable") instead of
\* false, so the caller unlinks the node the walk stopped at.
RECURSIVE CanDelete_MissingEdgeTrue(_, _, _)
CanDelete_MissingEdgeTrue(node, nw, depth) ==
    IF depth = Len(nw)
    THEN IF ~node.isEndOfWord
         THEN [node |-> node, ret |-> FALSE]
         ELSE [node |-> [node EXCEPT !.isEndOfWord = FALSE],
               ret |-> Len(node.children) = 0]
    ELSE LET char == <<nw[depth + 1]>>
             i == MapIndex(node.children, char)
         IN IF i = 0
            THEN [node |-> node, ret |-> TRUE]
            ELSE LET sub == CanDelete_MissingEdgeTrue(
                                node.children[i].node, nw, depth + 1)
                 IN IF sub.ret
                    THEN LET rest == MapDelete(node.children, i)
                         IN [node |-> [node EXCEPT !.children = rest],
                             ret |-> Len(rest) = 0 /\ ~node.isEndOfWord]
                    ELSE [node |-> [node EXCEPT !.children[i].node = sub.node],
                          ret |-> FALSE]

\* Mutant of CanDelete: the flag is cleared but no node is ever reported
\* prunable (the base case returns false), so nothing is unlinked.
RECURSIVE CanDelete_NoPrune(_, _, _)
CanDelete_NoPrune(node, nw, depth) ==
    IF depth = Len(nw)
    THEN IF ~node.isEndOfWord
         THEN [node |-> node, ret |-> FALSE]
         ELSE [node |-> [node EXCEPT !.isEndOfWord = FALSE], ret |-> FALSE]
    ELSE LET char == <<nw[depth + 1]>>
             i == MapIndex(node.children, char)
         IN IF i = 0
            THEN [node |-> node, ret |-> FALSE]
            ELSE LET sub == CanDelete_NoPrune(node.children[i].node, nw,
                                              depth + 1)
                 IN IF sub.ret
                    THEN LET rest == MapDelete(node.children, i)
                         IN [node |-> [node EXCEPT !.children = rest],
                             ret |-> Len(rest) = 0 /\ ~node.isEndOfWord]
                    ELSE [node |-> [node EXCEPT !.children[i].node = sub.node],
                          ret |-> FALSE]

\* Mutant of CanDelete: after unlinking the child, the current node reports
\* false, so the pruning stops one level above the word's last node.
RECURSIVE CanDelete_PruneOneLevel(_, _, _)
CanDelete_PruneOneLevel(node, nw, depth) ==
    IF depth = Len(nw)
    THEN IF ~node.isEndOfWord
         THEN [node |-> node, ret |-> FALSE]
         ELSE [node |-> [node EXCEPT !.isEndOfWord = FALSE],
               ret |-> Len(node.children) = 0]
    ELSE LET char == <<nw[depth + 1]>>
             i == MapIndex(node.children, char)
         IN IF i = 0
            THEN [node |-> node, ret |-> FALSE]
            ELSE LET sub == CanDelete_PruneOneLevel(node.children[i].node, nw,
                                                    depth + 1)
                 IN IF sub.ret
                    THEN LET rest == MapDelete(node.children, i)
                         IN [node |-> [node EXCEPT !.children = rest],
                             ret |-> FALSE]
                    ELSE [node |-> [node EXCEPT !.children[i].node = sub.node],
                          ret |-> FALSE]

\* Mutant of CanDelete: the current node is reported prunable as soon as it
\* has no child left, the test of its own isEndOfWord being lost.
RECURSIVE CanDelete_IgnoreEndOfWord(_, _, _)
CanDelete_IgnoreEndOfWord(node, nw, depth) ==
    IF depth = Len(nw)
    THEN IF ~node.isEndOfWord
         THEN [node |-> node, ret |-> FALSE]
         ELSE [node |-> [node EXCEPT !.isEndOfWord = FALSE],
               ret |-> Len(node.children) = 0]
    ELSE LET char == <<nw[depth + 1]>>
             i == MapIndex(node.children, char)
         IN IF i = 0
            THEN [node |-> node, ret |-> FALSE]
            ELSE LET sub == CanDelete_IgnoreEndOfWord(node.children[i].node,
                                                      nw, depth + 1)
                 IN IF sub.ret
                    THEN LET rest == MapDelete(node.children, i)
                         IN [node |-> [node EXCEPT !.children = rest],
                             ret |-> Len(rest) = 0]
                    ELSE [node |-> [node EXCEPT !.children[i].node = sub.node],
                          ret |-> FALSE]

\* canDelete(node, depth) for the normalized word nw: the node as the call
\* leaves it and the boolean it returns.  depth counts code units, and
\* normalizedWord[depth] is the single code unit at that index.
RECURSIVE CanDelete(_, _, _)
CanDelete(node, nw, depth) ==
    IF depth = Len(nw)
    THEN IF ~node.isEndOfWord
         THEN [node |-> node, ret |-> FALSE]
         ELSE [node |-> [node EXCEPT !.isEndOfWord = FALSE],
               ret |-> Len(node.children) = 0]
    ELSE LET char == <<nw[depth + 1]>>
             i == MapIndex(node.children, char)
         IN IF i = 0
            THEN [node |-> node, ret |-> FALSE]
            ELSE LET sub == CanDelete(node.children[i].node, nw, depth + 1)
                 IN IF sub.ret
                    THEN LET rest == MapDelete(node.children, i)
                         IN [node |-> [node EXCEPT !.children = rest],
                             ret |-> Len(rest) = 0 /\ ~node.isEndOfWord]
                    ELSE [node |-> [node EXCEPT !.children[i].node = sub.node],
                          ret |-> FALSE]

\* The edge keys canDelete looks up for the normalized word nw, one per
\* index below nw.length: normalizedWord[depth] is one code unit.
DeleteKeys(nw) == [i \in 1..Len(nw) |-> <<nw[i]>>]

\* Mutant of Delete: the value returned is whether the word was found, not
\* the prune signal of the root.
Delete_ReturnsPresence(r, word) ==
    [node |-> CanDelete(r, ToLowerCase(word), 0).node,
     ret |-> LET node == Traverse(r, word)
             IN node # Null /\ node.isEndOfWord]

\* delete(word): the root after the call and the value returned.
Delete(r, word) == CanDelete(r, ToLowerCase(word), 0)

\* dfs(node, currentWord) of autocomplete: what it pushes to results, in order.
RECURSIVE Dfs(_, _)
RECURSIVE DfsChildren(_, _, _)

\* Mutant of Dfs: a word is pushed only at a node without children.
Dfs_LeavesOnly(node, currentWord) ==
    (IF node.isEndOfWord /\ Len(node.children) = 0
     THEN <<currentWord>> ELSE <<>>)
        \o DfsChildren(node.children, 1, currentWord)

\* Mutant of Dfs: the node's own word is pushed after the walk of its
\* children instead of before it.
Dfs_PostOrder(node, currentWord) ==
    DfsChildren(node.children, 1, currentWord)
        \o (IF node.isEndOfWord THEN <<currentWord>> ELSE <<>>)

Dfs(node, currentWord) ==
    (IF node.isEndOfWord THEN <<currentWord>> ELSE <<>>)
        \o DfsChildren(node.children, 1, currentWord)

DfsChildren(children, i, currentWord) ==
    IF i > Len(children) THEN <<>>
    ELSE Dfs(children[i].node, currentWord \o children[i].key)
             \o DfsChildren(children, i + 1, currentWord)

Autocomplete(r, prefix) ==
    LET startNode == Traverse(r, prefix)
    IN IF startNode = Null THEN <<>>
       ELSE Dfs(startNode, ToLowerCase(prefix))

\* The queue loop of countWords.
RECURSIVE CountLoop(_, _)
CountLoop(queue, count) ==
    IF queue = <<>> THEN count
    ELSE LET currentNode == Head(queue)
         IN CountLoop(
                Tail(queue) \o [i \in 1..Len(currentNode.children) |->
                                    currentNode.children[i].node],
                IF currentNode.isEndOfWord THEN count + 1 ELSE count)

CountWords(r) == CountLoop(<<r>>, 0)

\* The demonstration's dictionary: wordsToInsert, inserted in order into a
\* new Trie, and the trie after its delete('band').
DemoWords ==
    << <<"a", "p", "p", "l", "e">>,
       <<"a", "p", "p", "l", "i", "c", "a", "t", "i", "o", "n">>,
       <<"b", "a", "n", "a", "n", "a">>,
       <<"b", "a", "n", "d">>,
       <<"b", "a", "n", "d", "w", "i", "d", "t", "h">>,
       <<"j", "a", "v", "a">>,
       <<"j", "a", "v", "a", "s", "c", "r", "i", "p", "t">>,
       <<"t", "y", "p", "e">>,
       <<"t", "y", "p", "e", "s", "c", "r", "i", "p", "t">>,
       <<"r", "e", "a", "c", "t">> >>

RECURSIVE InsertAll(_, _)
InsertAll(r, ws) ==
    IF ws = <<>> THEN r ELSE InsertAll(Insert(r, Head(ws)), Tail(ws))

DemoDictionary == InsertAll(CreateNode, DemoWords)

DemoAfterDelete == Delete(DemoDictionary, <<"b", "a", "n", "d">>).node

----------------------------------------------------------------------------
(* The state machine: one action per public operation.  root is the trie;  *)
(* op, arg and ret record the last call, its argument and its result, prev *)
(* the root before it, and words the reference set of the specification    *)
(* (lowercase(x) added by insert(x), removed by delete(x)).                *)

Init ==
    /\ root = CreateNode
    /\ words = {}
    /\ op = "new"
    /\ arg = <<>>
    /\ ret = FALSE
    /\ prev = CreateNode
    /\ nops = 0
    /\ pc = "idle"
    /\ frames = <<>>
    /\ cwQueue = <<>>
    /\ cwCount = 0
    /\ steps = 0

DoInsert(w) ==
    /\ nops < MaxOps
    /\ root' = Insert(root, w)
    /\ words' = words \cup {ToLowerCase(w)}
    /\ op' = "insert"
    /\ arg' = w
    /\ ret' = FALSE
    /\ prev' = root
    /\ nops' = nops + 1
    /\ UNCHANGED stepVars

DoDelete(w) ==
    /\ nops < MaxOps
    /\ LET d == Delete(root, w)
       IN /\ root' = d.node
          /\ ret' = d.ret
    /\ words' = words \ {ToLowerCase(w)}
    /\ op' = "delete"
    /\ arg' = w
    /\ prev' = root
    /\ nops' = nops + 1
    /\ UNCHANGED stepVars

DoSearch(w) ==
    /\ op' = "search"
    /\ arg' = w
    /\ ret' = Search(root, w)
    /\ prev' = root
    /\ UNCHANGED <<root, words, nops>>
    /\ UNCHANGED stepVars

DoStartsWith(w) ==
    /\ op' = "startsWith"
    /\ arg' = w
    /\ ret' = StartsWith(root, w)
    /\ prev' = root
    /\ UNCHANGED <<root, words, nops>>
    /\ UNCHANGED stepVars

DoAutocomplete(w) ==
    /\ op' = "autocomplete"
    /\ arg' = w
    /\ ret' = Autocomplete(root, w)
    /\ prev' = root
    /\ UNCHANGED <<root, words, nops>>
    /\ UNCHANGED stepVars

DoCountWords ==
    /\ op' = "countWords"
    /\ arg' = <<>>
    /\ ret' = CountWords(root)
    /\ prev' = root
    /\ UNCHANGED <<root, words, nops>>
    /\ UNCHANGED stepVars

Next ==
    \/ \E w \in Inputs : DoInsert(w)
    \/ \E w \in Inputs : DoDelete(w)
    \/ \E w \in Inputs : DoSearch(w)
    \/ \E w \in Inputs : DoStartsWith(w)
    \/ \E w \in Inputs : DoAutocomplete(w)
    \/ DoCountWords

Spec == Init /\ [][Next]_vars

----------------------------------------------------------------------------
(* The step-by-step specification: delete and countWords run one call of   *)
(* canDelete, one return, one turn of the queue loop at a time.  pc says   *)
(* where the running call is; frames is the stack of canDelete's           *)
(* activations, each with its node (as the activation has left it so far)  *)
(* and its depth; ret holds the value the last activation returned;        *)
(* cwQueue and cwCount are countWords' queue and count; steps counts the   *)
(* steps the running call has taken.  The locals are gone (reset) when the *)
(* call returns.                                                           *)

\* delete(word) is called: canDelete(this.root), depth defaulting to 0.
DeleteCall(w) ==
    /\ pc = "idle"
    /\ nops < MaxOps
    /\ pc' = "canDelete"
    /\ frames' = <<[node |-> root, depth |-> 0]>>
    /\ steps' = 0
    /\ op' = "delete"
    /\ arg' = w
    /\ prev' = root
    /\ nops' = nops + 1
    /\ UNCHANGED <<root, words, ret, cwQueue, cwCount>>

\* A canDelete whose recursive call passes depth instead of depth + 1.
CanDeleteEnter_SameDepth ==
    /\ pc = "canDelete"
    /\ LET nw == ToLowerCase(arg)
           top == Len(frames)
           node == frames[top].node
           depth == frames[top].depth
       IN IF depth = Len(nw)
          THEN IF ~node.isEndOfWord
               THEN /\ ret' = FALSE
                    /\ pc' = "return"
                    /\ UNCHANGED frames
               ELSE /\ frames' = [frames EXCEPT
                                     ![top].node.isEndOfWord = FALSE]
                    /\ ret' = (Len(node.children) = 0)
                    /\ pc' = "return"
          ELSE LET i == MapIndex(node.children, <<nw[depth + 1]>>)
               IN IF i = 0
                  THEN /\ ret' = FALSE
                       /\ pc' = "return"
                       /\ UNCHANGED frames
                  ELSE /\ frames' = Append(frames,
                                           [node |-> node.children[i].node,
                                            depth |-> depth])
                       /\ UNCHANGED <<pc, ret>>
    /\ steps' = steps + 1
    /\ UNCHANGED <<root, words, op, arg, prev, nops, cwQueue, cwCount>>

\* The top activation runs up to its return or its recursive call.
CanDeleteEnter ==
    /\ pc = "canDelete"
    /\ LET nw == ToLowerCase(arg)
           top == Len(frames)
           node == frames[top].node
           depth == frames[top].depth
       IN IF depth = Len(nw)
          THEN IF ~node.isEndOfWord
               THEN /\ ret' = FALSE
                    /\ pc' = "return"
                    /\ UNCHANGED frames
               ELSE /\ frames' = [frames EXCEPT
                                     ![top].node.isEndOfWord = FALSE]
                    /\ ret' = (Len(node.children) = 0)
                    /\ pc' = "return"
          ELSE LET i == MapIndex(node.children, <<nw[depth + 1]>>)
               IN IF i = 0
                  THEN /\ ret' = FALSE
                       /\ pc' = "return"
                       /\ UNCHANGED frames
                  ELSE /\ frames' = Append(frames,
                                           [node |-> node.children[i].node,
                                            depth |-> depth + 1])
                       /\ UNCHANGED <<pc, ret>>
    /\ steps' = steps + 1
    /\ UNCHANGED <<root, words, op, arg, prev, nops, cwQueue, cwCount>>

\* The top activation has returned ret: its caller takes it as
\* shouldDeleteChild and runs to its own return; the outermost return ends
\* delete.
CanDeleteReturn ==
    /\ pc = "return"
    /\ LET nw == ToLowerCase(arg)
           top == Len(frames)
       IN IF top = 1
          THEN /\ root' = frames[1].node
               /\ words' = words \ {nw}
               /\ frames' = <<>>
               /\ steps' = 0
               /\ pc' = "idle"
               /\ UNCHANGED ret
          ELSE LET node == frames[top - 1].node
                   depth == frames[top - 1].depth
                   i == MapIndex(node.children, <<nw[depth + 1]>>)
                   rest == MapDelete(node.children, i)
               IN /\ IF ret
                     THEN /\ frames' = [SubSeq(frames, 1, top - 1) EXCEPT
                                           ![top - 1].node.children = rest]
                          /\ ret' = (Len(rest) = 0 /\ ~node.isEndOfWord)
                     ELSE /\ frames' = [SubSeq(frames, 1, top - 1) EXCEPT
                                           ![top - 1].node.children[i].node =
                                               frames[top].node]
                          /\ ret' = FALSE
                  /\ steps' = steps + 1
                  /\ UNCHANGED <<root, words, pc>>
    /\ UNCHANGED <<op, arg, prev, nops, cwQueue, cwCount>>

\* countWords() is called: count = 0, queue = [this.root].
CountCall ==
    /\ pc = "idle"
    /\ pc' = "count"
    /\ cwQueue' = <<root>>
    /\ cwCount' = 0
    /\ steps' = 0
    /\ op' = "countWords"
    /\ arg' = <<>>
    /\ prev' = root
    /\ UNCHANGED <<root, words, ret, nops, frames>>

\* One turn of the while loop.
CountTurn ==
    /\ pc = "count"
    /\ Len(cwQueue) > 0
    /\ LET currentNode == Head(cwQueue)
       IN /\ cwCount' = IF currentNode.isEndOfWord THEN cwCount + 1
                      ELSE cwCount
          /\ cwQueue' = Tail(cwQueue) \o
                          [i \in 1..Len(currentNode.children) |->
                               currentNode.children[i].node]
    /\ steps' = steps + 1
    /\ UNCHANGED <<root, words, op, arg, ret, prev, nops, pc, frames>>

\* The loop's test fails: return count.
CountReturn ==
    /\ pc = "count"
    /\ Len(cwQueue) = 0
    /\ ret' = cwCount
    /\ cwCount' = 0
    /\ steps' = 0
    /\ pc' = "idle"
    /\ UNCHANGED <<root, words, op, arg, prev, nops, frames, cwQueue>>

Running == CanDeleteEnter \/ CanDeleteReturn \/ CountTurn \/ CountReturn

NextSteps ==
    \/ \E w \in Inputs : pc = "idle" /\ DoInsert(w)
    \/ \E w \in Inputs : pc = "idle" /\ DoSearch(w)
    \/ \E w \in Inputs : pc = "idle" /\ DoStartsWith(w)
    \/ \E w \in Inputs : pc = "idle" /\ DoAutocomplete(w)
    \/ \E w \in Inputs : DeleteCall(w)
    \/ CountCall
    \/ Running

\* The code is synchronous and single-threaded: a call that has a next step
\* takes it.
SpecSteps == Init /\ [][NextSteps]_vars /\ WF_vars(Running)

----------------------------------------------------------------------------
(* Vocabulary of the properties.                                           *)

SeqToSet(s) == {s[i] : i \in 1..Len(s)}

NoDuplicates(s) == \A i, j \in 1..Len(s) : s[i] = s[j] => i = j

\* p is a prefix of w, as sequences of code units.
IsPrefix(p, w) == Len(p) <= Len(w) /\ SubSeq(w, 1, Len(p)) = p

RECURSIVE Concat(_)
Concat(ss) == IF ss = <<>> THEN <<>> ELSE Head(ss) \o Concat(Tail(ss))

\* The prefixes of w that end at a character boundary, "" and w included.
Prefixes(w) ==
    LET cps == CodePoints(w)
    IN {Concat(SubSeq(cps, 1, k)) : k \in 0..Len(cps)}

\* The normalized words the trie r holds, as search reports them.
Stored(r) == {ToLowerCase(w) : w \in {x \in Inputs : Search(r, x)}}

SameCase(w, v) == ToLowerCase(w) = ToLowerCase(v)

----------------------------------------------------------------------------
\* C1: delete(w) returns true if and only if lowercase(w) was stored just
\* before the call, and then it is no longer stored after it.
C1_DeleteReturnsPresence ==
    op = "delete" =>
        /\ ret = Search(prev, arg)
        /\ ret => ~Search(root, arg)

\* C2: after any sequence of insert and delete calls, search(w) is true
\* exactly when lowercase(w) is in the reference set.
C2_SearchMatchesReferenceSet ==
    \A w \in Inputs : Search(root, w) <=> ToLowerCase(w) \in words

\* C3: deleting a stored word w makes search(w) false, leaves search(w2)
\* unchanged for every other word, and takes exactly lowercase(w) out of
\* autocomplete(p) for every prefix p.
C3_DeleteFrame ==
    (op = "delete" /\ Search(prev, arg)) =>
        /\ ~Search(root, arg)
        /\ \A w2 \in Inputs :
               ~SameCase(w2, arg) => Search(root, w2) = Search(prev, w2)
        /\ \A p \in Inputs :
               SeqToSet(Autocomplete(root, p)) =
                   SeqToSet(Autocomplete(prev, p)) \ {ToLowerCase(arg)}

\* C4: right after insert(w), search(w) is true; an insert never turns a
\* true search false, and changes search(x) for no x other than lowercase(w).
C4_InsertThenSearch ==
    op = "insert" =>
        /\ Search(root, arg)
        /\ \A x \in Inputs : Search(prev, x) => Search(root, x)
        /\ \A x \in Inputs :
               ~SameCase(x, arg) => Search(root, x) = Search(prev, x)

\* C4 witness: an insert of a new word into a trie that already held another.
C4_Witness ==
    /\ op = "insert"
    /\ ~Search(prev, arg)
    /\ \E x \in Inputs :
           Search(prev, x) /\ IsPrefix(ToLowerCase(arg), ToLowerCase(x))

\* C5: delete(w) of a word that is not stored returns false and changes
\* nothing: same tree, same countWords, same autocomplete for every prefix.
C5_DeleteAbsentIsNoOp ==
    (op = "delete" /\ ~Search(prev, arg)) =>
        /\ ret = FALSE
        /\ root = prev
        /\ CountWords(root) = CountWords(prev)
        /\ \A p \in Inputs : Autocomplete(root, p) = Autocomplete(prev, p)

\* C5 witness: a delete of a pure prefix of a stored word.
C5_Witness ==
    /\ op = "delete"
    /\ arg # <<>>
    /\ ~Search(prev, arg)
    /\ StartsWith(prev, arg)

\* C6: countWords() is the size of the reference set of stored words.
C6_CountWordsIsSetSize == CountWords(root) = Cardinality(words)

\* C7: autocomplete(p) returns exactly the stored words that begin with
\* lowercase(p), each once, and nothing when p has no path.
C7_AutocompleteExact ==
    \A p \in Inputs :
        LET res == Autocomplete(root, p)
        IN /\ SeqToSet(res) =
                  {w \in Stored(root) : IsPrefix(ToLowerCase(p), w)}
           /\ NoDuplicates(res)
           /\ ~StartsWith(root, p) => res = <<>>

\* C7 witness: autocomplete of a stored word that other stored words extend.
C7_Witness ==
    /\ op = "autocomplete"
    /\ arg # <<>>
    /\ Len(ret) >= 3
    /\ ToLowerCase(arg) \in SeqToSet(ret)

\* C8: the operations do the same on two strings that differ only in case,
\* and every word autocomplete returns is lowercase.
C8_CaseInsensitive ==
    /\ \A w \in Inputs :
           LET l == ToLowerCase(w)
           IN /\ Search(root, w) = Search(root, l)
              /\ StartsWith(root, w) = StartsWith(root, l)
              /\ Autocomplete(root, w) = Autocomplete(root, l)
              /\ Insert(root, w) = Insert(root, l)
              /\ Delete(root, w) = Delete(root, l)
              /\ \A x \in SeqToSet(Autocomplete(root, w)) : x = ToLowerCase(x)
    /\ op = "insert" => \A v \in Inputs : SameCase(v, arg) => Search(root, v)

\* C8 witness: a word stored under one casing is deleted under another.
C8_Witness ==
    /\ op = "delete"
    /\ arg # ToLowerCase(arg)
    /\ Search(prev, ToLowerCase(arg))
    /\ ~Search(root, ToLowerCase(arg))

\* C9: insert is idempotent: a second insert(w) changes nothing, so every
\* query answers as after the first.
C9_InsertIdempotent ==
    /\ (op = "insert" /\ Search(prev, arg)) => root = prev
    /\ \A w \in Inputs :
           LET once == Insert(root, w)
               twice == Insert(once, w)
           IN /\ twice = once
              /\ CountWords(twice) = CountWords(once)
              /\ \A x \in Inputs :
                     /\ Search(twice, x) = Search(once, x)
                     /\ StartsWith(twice, x) = StartsWith(once, x)
                     /\ Autocomplete(twice, x) = Autocomplete(once, x)

\* C9 witness: a stored word that other words extend is inserted again.
C9_Witness ==
    /\ op = "insert"
    /\ Search(prev, arg)
    /\ \E x \in Inputs :
           /\ Len(x) > Len(arg)
           /\ Search(prev, x)
           /\ IsPrefix(ToLowerCase(arg), ToLowerCase(x))

\* C10: if search(w) is true then startsWith(p) is true for every prefix p
\* of w, the empty prefix and w itself included.
C10_PrefixMonotone ==
    \A w \in Inputs :
        Search(root, w) => \A p \in Prefixes(w) : StartsWith(root, p)

\* C10 witness: after a delete of a stored prefix, a longer word is stored
\* whose proper prefix is not.
C10_Witness ==
    /\ op = "delete"
    /\ Search(prev, arg)
    /\ ~Search(root, arg)
    /\ \E w \in Inputs :
           Len(w) > Len(arg) /\ Search(root, w) /\ arg \in Prefixes(w)

----------------------------------------------------------------------------
(* The tree as a set of nodes, each named by the code units of the edge    *)
(* keys from the root to it.                                               *)

RECURSIVE NodesUnder(_, _)
NodesUnder(node, path) ==
    {[path |-> path, isEndOfWord |-> node.isEndOfWord]}
        \cup UNION {NodesUnder(node.children[i].node,
                               path \o node.children[i].key) :
                        i \in 1..Len(node.children)}

Paths(r) == {n.path : n \in NodesUnder(r, <<>>)}

Marked(r) == {n.path : n \in {m \in NodesUnder(r, <<>>) : m.isEndOfWord}}

\* C11: the empty string is a word kept on the root: root.isEndOfWord is
\* true iff "" is in the reference set; insert("") changes only that flag
\* and raises countWords by one when "" was absent; delete("") changes only
\* that flag.
C11_EmptyWordOnRoot ==
    /\ root.isEndOfWord <=> <<>> \in words
    /\ (op = "insert" /\ arg = <<>>) =>
           /\ root = [prev EXCEPT !.isEndOfWord = TRUE]
           /\ Search(root, <<>>)
           /\ CountWords(root) =
                  CountWords(prev) + (IF prev.isEndOfWord THEN 0 ELSE 1)
    /\ (op = "delete" /\ arg = <<>>) =>
           /\ root = [prev EXCEPT !.isEndOfWord = FALSE]
           /\ Paths(root) = Paths(prev)

\* C11 witness: delete("") on a trie that holds "" and other words.
C11_Witness ==
    /\ op = "delete"
    /\ arg = <<>>
    /\ prev.isEndOfWord
    /\ ~root.isEndOfWord
    /\ Len(root.children) > 0

\* C13: no node other than the root has zero children and isEndOfWord false.
C13_NoGarbage ==
    \A n \in NodesUnder(root, <<>>) :
        (n.path # <<>> /\ ~n.isEndOfWord) =>
            \E m \in Paths(root) : m # n.path /\ IsPrefix(n.path, m)

\* C13 witness: a delete pruned a chain of two nodes and left another branch.
C13_Witness ==
    /\ op = "delete"
    /\ Cardinality(Paths(prev) \ Paths(root)) = 2
    /\ Len(root.children) > 0

\* C14: delete(w) creates no node, unlinks only nodes on w's path below
\* which nothing but w was stored and no other branch hung, never a node on
\* the path of a word still stored and never the root, and changes the flag
\* of no node but w's last one.
C14_DeleteUnlinksOnlyOwnPath ==
    op = "delete" =>
        LET w == ToLowerCase(arg)
            gone == Paths(prev) \ Paths(root)
        IN /\ Paths(root) \subseteq Paths(prev)
           /\ <<>> \notin gone
           /\ \A p \in gone :
                  /\ IsPrefix(p, w)
                  /\ \A q \in Paths(prev) : IsPrefix(p, q) => IsPrefix(q, w)
                  /\ \A q \in Marked(prev) : IsPrefix(p, q) => q = w
                  /\ \A q \in Marked(root) : ~IsPrefix(p, q)
           /\ \A p \in Paths(root) :
                  (p \in Marked(root)) # (p \in Marked(prev)) => p = w

\* C14 witness: a delete unlinked the word's last node and stopped at its
\* parent, which ends another stored word.
C14_Witness ==
    /\ op = "delete"
    /\ Len(arg) = 2
    /\ ToLowerCase(arg) \in Paths(prev) \ Paths(root)
    /\ SubSeq(ToLowerCase(arg), 1, 1) \in Marked(root)

C18_InsertDeleteRoundTrip ==
    \A w \in Inputs :
        ~Search(root, w) => Delete(Insert(root, w), w).node = root

\* C19: insert, traverse and delete cut a normalized word into the same
\* edge keys, so insert(w) followed by delete(w) makes search(w) false.
C19_SameEdgeKeys ==
    \A w \in Inputs :
        /\ DeleteKeys(ToLowerCase(w)) = CodePoints(ToLowerCase(w))
        /\ ~Search(Delete(Insert(root, w), w).node, w)

----------------------------------------------------------------------------
Without(s, x) == SelectSeq(s, LAMBDA y : y # x)

Keep(s, S) == SelectSeq(s, LAMBDA y : y \in S)

\* The longest prefix of w, cut at a character boundary, that has a path in r.
LongestPath(r, w) ==
    CHOOSE q \in Prefixes(w) :
        /\ StartsWith(r, q)
        /\ \A q2 \in Prefixes(w) : StartsWith(r, q2) => Len(q2) <= Len(q)

\* C15: autocomplete(p) lists its words in depth-first pre-order with the
\* children of a node in the order their edges were created: a word comes
\* before the words that extend it and the words below one node are
\* contiguous; an insert keeps the order of the words there were and, when
\* it creates an edge below a node, puts the new word last below that node
\* (also when the edge was pruned before); a delete keeps the order of the
\* words that stay.  For the demonstration's dictionary autocomplete("ban")
\* is banana, band, bandwidth, and banana, bandwidth after delete("band").
C15_AutocompleteOrder ==
    /\ \A p \in Inputs :
           LET res == Autocomplete(root, p)
           IN /\ \A i, j \in 1..Len(res) :
                     (i # j /\ IsPrefix(res[i], res[j])) => i < j
              /\ \A i, j, k \in 1..Len(res) :
                     (i < j /\ j < k) =>
                         \A q \in Prefixes(res[i]) :
                             IsPrefix(q, res[k]) => IsPrefix(q, res[j])
    /\ op = "insert" =>
           LET w == ToLowerCase(arg)
               q == LongestPath(prev, w)
           IN /\ \A p \in Inputs :
                     Without(Autocomplete(root, p), w) =
                         Without(Autocomplete(prev, p), w)
              /\ q # w =>
                     Autocomplete(root, q) = Append(Autocomplete(prev, q), w)
    /\ op = "delete" =>
           \A p \in Inputs :
               Autocomplete(root, p) =
                   Keep(Autocomplete(prev, p), Stored(root))
    /\ Autocomplete(DemoDictionary, <<"b", "a", "n">>) =
           << <<"b", "a", "n", "a", "n", "a">>,
              <<"b", "a", "n", "d">>,
              <<"b", "a", "n", "d", "w", "i", "d", "t", "h">> >>
    /\ Autocomplete(DemoAfterDelete, <<"b", "a", "n">>) =
           << <<"b", "a", "n", "a", "n", "a">>,
              <<"b", "a", "n", "d", "w", "i", "d", "t", "h">> >>

\* C15 witness: an insert created an edge on the root after a sibling edge
\* that holds a word and its extension; autocomplete("") lists the new word
\* last.
C15_Witness ==
    /\ op = "insert"
    /\ Len(arg) = 1
    /\ ~StartsWith(prev, arg)
    /\ Len(Autocomplete(prev, <<>>)) = 2
    /\ Autocomplete(root, <<>>) =
           Append(Autocomplete(prev, <<>>), ToLowerCase(arg))
    /\ IsPrefix(Autocomplete(prev, <<>>)[1], Autocomplete(prev, <<>>)[2])

----------------------------------------------------------------------------
\* C12, while a call runs: canDelete is never more than length(w) + 1
\* levels deep and takes a bounded number of steps, and when the outermost
\* activation has returned, the tree and the value are those of delete; the
\* queue loop takes one turn per node, and when the queue is empty it has
\* visited every node once and counted the marked ones.
C12_Bounded ==
    /\ pc \in {"idle", "canDelete", "return", "count"}
    /\ pc \in {"canDelete", "return"} =>
           /\ Len(frames) >= 1
           /\ Len(frames) <= Len(ToLowerCase(arg)) + 1
           /\ frames[Len(frames)].depth = Len(frames) - 1
           /\ steps < 2 * (Len(ToLowerCase(arg)) + 1)
    /\ (pc = "return" /\ Len(frames) = 1) =>
           /\ frames[1].node = Delete(root, arg).node
           /\ ret = Delete(root, arg).ret
    /\ pc = "count" =>
           /\ steps + Len(cwQueue) <= Cardinality(Paths(root))
           /\ cwCount <= steps
    /\ (pc = "count" /\ Len(cwQueue) = 0) =>
           /\ steps = Cardinality(Paths(root))
           /\ cwCount = Cardinality(Marked(root))
           /\ cwCount = CountWords(root)

\* C12, between calls: every operation has a result of its type for every
\* input string, on every trie that can be reached.
C12_Total ==
    pc = "idle" =>
        /\ \A w \in Inputs :
               /\ Search(root, w) \in BOOLEAN
               /\ StartsWith(root, w) \in BOOLEAN
               /\ Delete(root, w).ret \in BOOLEAN
               /\ Insert(root, w).isEndOfWord \in BOOLEAN
               /\ LET res == Autocomplete(root, w)
                  IN \A i \in 1..Len(res) : IsPrefix(ToLowerCase(w), res[i])
        /\ CountWords(root) \in Nat

\* C12: every operation is total and ends: a call in progress always has a
\* next step, and it takes a bounded number of them, so it returns.
C12_TotalAndTerminates ==
    /\ C12_Bounded
    /\ C12_Total
    /\ pc # "idle" => ENABLED Running

\* C12 witness: the outermost canDelete has returned from a recursion three
\* levels deep (length(w) + 1), having unlinked the word's nodes.
C12_Witness ==
    /\ pc = "return"
    /\ Len(frames) = 1
    /\ Len(ToLowerCase(arg)) = 2
    /\ steps = 5
    /\ ret = TRUE
    /\ frames[1].node # root

====
